---- MODULE Spec2Model ----
(***************************************************************************)
(* The customer-record cleaning pipeline: detect_issues, correct_issues,   *)
(* enrich_data and the orchestration loop of cli.main.                     *)
(*                                                                         *)
(* A text value is a sequence of one-character strings, so that title      *)
(* casing, trimming, digit stripping, padding and the regular expressions  *)
(* are computed character by character as the code does.  A cell of a      *)
(* DataFrame is a tagged record: a text, a number or the null value NaN.   *)
(* Numbers are stored in halves (Num(61) is 30.5), which is the only       *)
(* fraction the median of whole-number ages can produce.                   *)
(***************************************************************************)
EXTENDS Integers, Sequences, FiniteSets, TLC

VARIABLES
    pc,         \* position of cli.main: load, detect, correct, enrich, recheck, save, done, failed; fn under FnSpec
    df,         \* the DataFrame held by main, [cols, rows]
    iteration,  \* main's loop counter
    calls,      \* stage invocations so far: [detect, correct, enrich]
    trace,      \* the stages in the order main invoked them
    last,       \* the last stage call: [stage, arg, res, logs, generated]
    output,     \* the file written by df.to_csv, or NoFile
    exitCode,   \* the process's exit status, -1 while running
    log,        \* the log file: the sequence of [level, msg] entries
    scorer      \* the scoring library's answer for each text it may be asked

vars == <<pc, df, iteration, calls, trace, last, output, exitCode, log, scorer>>

----------------------------------------------------------------------------
(* Characters and text.                                                    *)

LowerChars == <<"a","b","c","d","e","f","g","h","i","j","k","l","m",
                "n","o","p","q","r","s","t","u","v","w","x","y","z">>
UpperChars == <<"A","B","C","D","E","F","G","H","I","J","K","L","M",
                "N","O","P","Q","R","S","T","U","V","W","X","Y","Z">>
DigitChars == <<"0","1","2","3","4","5","6","7","8","9">>

Range(s) == {s[i] : i \in DOMAIN s}

IndexIn(c, s) == CHOOSE i \in DOMAIN s : s[i] = c

IsLower(c) == c \in Range(LowerChars)
IsUpper(c) == c \in Range(UpperChars)
IsLetter(c) == IsLower(c) \/ IsUpper(c)
IsDigit(c) == c \in Range(DigitChars)
\* the regular expression class \w
IsWord(c) == IsLetter(c) \/ IsDigit(c) \/ c = "_"
\* the regular expression class [\w\.-]
IsEmailChar(c) == IsWord(c) \/ c = "." \/ c = "-"
IsSpace(c) == c = " "

ToUpper(c) == IF IsLower(c) THEN UpperChars[IndexIn(c, LowerChars)] ELSE c
ToLower(c) == IF IsUpper(c) THEN LowerChars[IndexIn(c, UpperChars)] ELSE c

\* str.lower()
Lower(s) == [i \in DOMAIN s |-> ToLower(s[i])]

\* str.title(): a letter that follows a non-letter (or starts the text) is
\* upper-cased, every other letter is lower-cased
Title(s) ==
    [i \in DOMAIN s |->
        IF i = 1 \/ ~IsLetter(s[i - 1]) THEN ToUpper(s[i]) ELSE ToLower(s[i])]

RECURSIVE LStrip(_)
LStrip(s) == IF s # <<>> /\ IsSpace(Head(s)) THEN LStrip(Tail(s)) ELSE s

RECURSIVE RStrip(_)
RStrip(s) ==
    IF s # <<>> /\ IsSpace(s[Len(s)]) THEN RStrip(SubSeq(s, 1, Len(s) - 1)) ELSE s

\* str.strip()
Strip(s) == RStrip(LStrip(s))

\* re.sub(r'[^\d]', '', s)
DigitsOnly(s) == SelectSeq(s, IsDigit)

RECURSIVE Zeros(_)
Zeros(n) == IF n <= 0 THEN <<>> ELSE <<"0">> \o Zeros(n - 1)

\* Series.str.pad(width, fillchar='0'): side defaults to 'left'
PadLeft(s, width) == Zeros(width - Len(s)) \o s

RECURSIVE NatText(_)
NatText(n) ==
    IF n < 10 THEN <<DigitChars[n + 1]>>
    ELSE NatText(n \div 10) \o <<DigitChars[(n % 10) + 1]>>

RECURSIVE TextNat(_)
TextNat(s) ==
    IF s = <<>> THEN 0
    ELSE 10 * TextNat(SubSeq(s, 1, Len(s) - 1)) + (IndexIn(s[Len(s)], DigitChars) - 1)

----------------------------------------------------------------------------
(* Cells.                                                                  *)

Str(s) == [k |-> "str", s |-> s, n |-> 0]
\* h halves: Num(60) is the number 30, Num(61) is 30.5
Num(h) == [k |-> "num", s |-> <<>>, n |-> h]
NaN == [k |-> "nan", s |-> <<>>, n |-> 0]

\* pd.isnull(x)
IsNull(c) == c.k = "nan"
\* isinstance(x, (int, float)): NaN is a float
IsNumber(c) == c.k \in {"num", "nan"}

Whole(n) == Num(2 * n)

\* str(x) / Series.astype(str)
AsStr(c) ==
    CASE c.k = "str" -> c.s
      [] c.k = "nan" -> <<"n","a","n">>
      [] c.k = "num" ->
            LET a == IF c.n < 0 THEN -c.n ELSE c.n
                sign == IF c.n < 0 THEN <<"-">> ELSE <<>>
            IN  sign \o NatText(a \div 2)
                     \o (IF a % 2 = 1 THEN <<".","5">> ELSE <<>>)

Unknown == <<"U","n","k","n","o","w","n">>

----------------------------------------------------------------------------
(* DataFrames: [cols |-> the set of column names, rows |-> the sequence of *)
(* records, each a function from cols to cells].                           *)

Frame(cols, rows) == [cols |-> cols, rows |-> rows]

Column(d, c) == [i \in DOMAIN d.rows |-> d.rows[i][c]]

\* df[c] = value for every row; the column is added when it is missing
SetColumn(d, c, vals) ==
    Frame(d.cols \cup {c},
          [i \in DOMAIN d.rows |->
              [x \in d.cols \cup {c} |-> IF x = c THEN vals[i] ELSE d.rows[i][x]]])

\* df.drop(columns=[c])
DropColumn(d, c) ==
    Frame(d.cols \ {c},
          [i \in DOMAIN d.rows |-> [x \in d.cols \ {c} |-> d.rows[i][x]]])

\* Series.apply(f) on column c, when the column is present
MapColumn(d, c, F(_)) ==
    IF c \in d.cols THEN SetColumn(d, c, [i \in DOMAIN d.rows |-> F(d.rows[i][c])])
    ELSE d

IsIn(c, vocabulary) == c.k = "str" /\ c.s \in Range(vocabulary)

SeqSum(s) ==
    LET RECURSIVE Upto(_)
        Upto(i) == IF i = 0 THEN 0 ELSE Upto(i - 1) + s[i]
    IN  Upto(Len(s))

----------------------------------------------------------------------------
(* agents/detection_agent.py                                               *)

\* EMAIL_REGEX = ^[\w\.-]+@[\w\.-]+\.\w+$ under Series.str.match
MatchEmail(s) ==
    \E i \in 2..Len(s) : \E j \in (i + 2)..(Len(s) - 1) :
        /\ s[i] = "@"
        /\ s[j] = "."
        /\ \A x \in 1..(i - 1) : IsEmailChar(s[x])
        /\ \A x \in (i + 1)..(j - 1) : IsEmailChar(s[x])
        /\ \A x \in (j + 1)..Len(s) : IsWord(s[x])

\* PHONE_REGEX = ^\d{3,4}-\d{4}$ under Series.str.match
MatchPhone(s) ==
    /\ Len(s) \in {8, 9}
    /\ s[Len(s) - 4] = "-"
    /\ \A x \in DOMAIN s : x # Len(s) - 4 => IsDigit(s[x])

GENDERS == << <<"M","a","l","e">>, <<"F","e","m","a","l","e">>, <<"O","t","h","e","r">> >>

MARITAL_STATUSES ==
    << <<"S","i","n","g","l","e">>, <<"M","a","r","r","i","e","d">>,
       <<"D","i","v","o","r","c","e","d">>, <<"W","i","d","o","w","e","d">> >>

CANONICAL_COUNTRIES ==
    << <<"U","n","i","t","e","d"," ","S","t","a","t","e","s">>,
       <<"I","n","d","i","a">>,
       <<"C","a","n","a","d","a">>,
       <<"U","n","i","t","e","d"," ","K","i","n","g","d","o","m">>,
       <<"A","u","s","t","r","a","l","i","a">>,
       <<"G","e","r","m","a","n","y">>,
       <<"F","r","a","n","c","e">>,
       <<"J","a","p","a","n">>,
       <<"C","h","i","n","a">>,
       <<"B","r","a","z","i","l">>,
       <<"S","o","u","t","h"," ","K","o","r","e","a">>,
       <<"I","t","a","l","y">>,
       <<"S","p","a","i","n">>,
       <<"M","e","x","i","c","o">>,
       <<"R","u","s","s","i","a">>,
       <<"N","e","t","h","e","r","l","a","n","d","s">>,
       <<"S","w","e","d","e","n">>,
       <<"N","o","r","w","a","y">>,
       <<"D","e","n","m","a","r","k">>,
       <<"F","i","n","l","a","n","d">>,
       <<"S","w","i","t","z","e","r","l","a","n","d">>,
       <<"A","u","s","t","r","i","a">>,
       <<"B","e","l","g","i","u","m">>,
       <<"I","r","e","l","a","n","d">>,
       <<"N","e","w"," ","Z","e","a","l","a","n","d">>,
       <<"S","i","n","g","a","p","o","r","e">>,
       <<"M","a","l","a","y","s","i","a">>,
       <<"T","h","a","i","l","a","n","d">>,
       <<"I","n","d","o","n","e","s","i","a">>,
       <<"T","u","r","k","e","y">>,
       <<"S","a","u","d","i"," ","A","r","a","b","i","a">>,
       <<"U","A","E">>,
       <<"S","o","u","t","h"," ","A","f","r","i","c","a">>,
       <<"E","g","y","p","t">>,
       <<"A","r","g","e","n","t","i","n","a">>,
       <<"C","h","i","l","e">>,
       <<"C","o","l","o","m","b","i","a">>,
       <<"P","e","r","u">>,
       <<"P","o","l","a","n","d">>,
       <<"P","o","r","t","u","g","a","l">>,
       <<"G","r","e","e","c","e">>,
       <<"C","z","e","c","h"," ","R","e","p","u","b","l","i","c">>,
       <<"H","u","n","g","a","r","y">>,
       <<"R","o","m","a","n","i","a">>,
       <<"S","l","o","v","a","k","i","a">>,
       <<"S","l","o","v","e","n","i","a">>,
       <<"C","r","o","a","t","i","a">>,
       <<"E","s","t","o","n","i","a">>,
       <<"L","a","t","v","i","a">>,
       <<"L","i","t","h","u","a","n","i","a">>,
       <<"P","h","i","l","i","p","p","i","n","e","s">>,
       <<"V","i","e","t","n","a","m">>,
       <<"P","a","k","i","s","t","a","n">>,
       <<"B","a","n","g","l","a","d","e","s","h">>,
       <<"S","r","i"," ","L","a","n","k","a">>,
       <<"N","e","p","a","l">>,
       <<"I","s","r","a","e","l">>,
       <<"Q","a","t","a","r">>,
       <<"K","u","w","a","i","t">>,
       <<"O","m","a","n">>,
       <<"M","o","r","o","c","c","o">>,
       <<"K","e","n","y","a">>,
       <<"N","i","g","e","r","i","a">>,
       <<"G","h","a","n","a">>,
       <<"V","e","n","e","z","u","e","l","a">>,
       <<"E","c","u","a","d","o","r">>,
       <<"U","r","u","g","u","a","y">>,
       <<"P","a","r","a","g","u","a","y">>,
       <<"B","o","l","i","v","i","a">>,
       <<"C","o","s","t","a"," ","R","i","c","a">>,
       <<"P","a","n","a","m","a">>,
       <<"G","u","a","t","e","m","a","l","a">>,
       <<"H","o","n","d","u","r","a","s">>,
       <<"E","l"," ","S","a","l","v","a","d","o","r">>,
       <<"D","o","m","i","n","i","c","a","n"," ","R","e","p","u","b","l","i","c">>,
       <<"C","u","b","a">>,
       <<"J","a","m","a","i","c","a">>,
       <<"T","r","i","n","i","d","a","d"," ","a","n","d"," ","T","o","b","a","g","o">>,
       <<"I","c","e","l","a","n","d">>,
       <<"L","u","x","e","m","b","o","u","r","g">>,
       <<"L","i","e","c","h","t","e","n","s","t","e","i","n">>,
       <<"M","o","n","a","c","o">>,
       <<"A","n","d","o","r","r","a">>,
       <<"S","a","n"," ","M","a","r","i","n","o">>,
       <<"M","a","l","t","a">>,
       <<"C","y","p","r","u","s">>,
       <<"B","a","h","r","a","i","n">>,
       <<"J","o","r","d","a","n">>,
       <<"L","e","b","a","n","o","n">>,
       <<"S","y","r","i","a">>,
       <<"I","r","a","q">>,
       <<"I","r","a","n">>,
       <<"A","f","g","h","a","n","i","s","t","a","n">>,
       <<"U","z","b","e","k","i","s","t","a","n">>,
       <<"K","a","z","a","k","h","s","t","a","n">>,
       <<"A","z","e","r","b","a","i","j","a","n">>,
       <<"G","e","o","r","g","i","a">>,
       <<"A","r","m","e","n","i","a">>,
       <<"M","o","n","g","o","l","i","a">>,
       <<"C","a","m","b","o","d","i","a">>,
       <<"L","a","o","s">>,
       <<"M","y","a","n","m","a","r">>,
       <<"B","r","u","n","e","i">>,
       <<"T","i","m","o","r","-","L","e","s","t","e">> >>

CANONICAL_CITIES ==
    << <<"S","p","r","i","n","g","f","i","e","l","d">>,
       <<"S","e","a","t","t","l","e">>,
       <<"M","i","a","m","i"," ","B","e","a","c","h">>,
       <<"S","a","n"," ","F","r","a","n","c","i","s","c","o">>,
       <<"B","l","u","d","h","a","v","e","n">>,
       <<"H","u","b"," ","C","i","t","y">>,
       <<"M","e","t","r","o","p","o","l","i","s">>,
       <<"O","p","a","l"," ","C","i","t","y">>,
       <<"G","a","t","e","w","a","y"," ","C","i","t","y">>,
       <<"H","o","u","s","t","o","n">>,
       <<"C","e","n","t","r","a","l"," ","C","i","t","y">>,
       <<"B","e","l","l","e","v","u","e">>,
       <<"R","i","v","e","r","s","i","d","e">>,
       <<"N","e","w"," ","Y","o","r","k">>,
       <<"G","o","t","h","a","m">>,
       <<"C","o","a","s","t"," ","C","i","t","y">>,
       <<"L","o","s"," ","A","n","g","e","l","e","s">>,
       <<"S","t","a","r"," ","C","i","t","y">>,
       <<"M","i","a","m","i">>,
       <<"N","a","t","i","o","n","a","l"," ","C","i","t","y">>,
       <<"M","u","m","b","a","i">>,
       <<"N","e","w","a","r","k">>,
       <<"D","a","l","l","a","s">>,
       <<"U","n","k","n","o","w","n">> >>

\* the upper end of a plausible age, in halves
MaxAge == 2 * 120

NameColumns == <<"first_name", "last_name", "full_name">>

invalid_email(c) ==
    \/ ~MatchEmail(AsStr(c))
    \/ IsNull(c)
    \/ Strip(AsStr(c)) = <<>>

invalid_phone(c) == ~MatchPhone(AsStr(c))

invalid_gender(c) == ~IsIn(c, GENDERS)

invalid_marital(c) == ~IsIn(c, MARITAL_STATUSES)

invalid_age(c) == IsNull(c) \/ (IsNumber(c) /\ (c.n <= 0 \/ c.n > MaxAge))

invalid_loyalty(c) == IsNull(c) \/ (IsNumber(c) /\ c.n < 0)

non_canonical(c) == ~IsIn(c, CANONICAL_COUNTRIES)

\* df.duplicated(keep=False): some other row equals row i in every column
duplicate_mask(d, i) == \E j \in DOMAIN d.rows : j # i /\ d.rows[j] = d.rows[i]

empty_name(c) ==
    \/ IsNull(c)
    \/ Strip(AsStr(c)) = <<>>
    \/ Lower(AsStr(c)) = <<"n","a","n">>

\* the rules detect_issues runs on d, in its order: [col, tag, bad]
DetectRules(d) ==
    LET rule(col, tag) == IF col \in d.cols THEN <<[col |-> col, tag |-> tag]>> ELSE <<>>
    IN  rule("email", "Invalid Email")
        \o rule("phone", "Invalid Phone")
        \o rule("gender", "Invalid Gender")
        \o rule("marital_status", "Invalid Marital Status")
        \o rule("age", "Invalid Age")
        \o rule("loyalty_points", "Invalid Loyalty Points")
        \o rule("country", "Non-canonical Country")
        \o <<[col |-> "*", tag |-> "Duplicate"]>>
        \o rule("first_name", "Empty first_name")
        \o rule("last_name", "Empty last_name")
        \o rule("full_name", "Empty full_name")

\* whether rule r flags row i of d
Flags(d, r, i) ==
    CASE r.tag = "Invalid Email" -> invalid_email(d.rows[i][r.col])
      [] r.tag = "Invalid Phone" -> invalid_phone(d.rows[i][r.col])
      [] r.tag = "Invalid Gender" -> invalid_gender(d.rows[i][r.col])
      [] r.tag = "Invalid Marital Status" -> invalid_marital(d.rows[i][r.col])
      [] r.tag = "Invalid Age" -> invalid_age(d.rows[i][r.col])
      [] r.tag = "Invalid Loyalty Points" -> invalid_loyalty(d.rows[i][r.col])
      [] r.tag = "Non-canonical Country" -> non_canonical(d.rows[i][r.col])
      [] r.tag = "Duplicate" -> duplicate_mask(d, i)
      [] OTHER -> empty_name(d.rows[i][r.col])

\* combine_issues: the tags of row i, joined in rule order.  The joined
\* text is kept as the sequence of its tags, "" being the empty sequence.
RECURSIVE combine_issues(_, _, _, _)
combine_issues(d, rules, i, x) ==
    IF x > Len(rules) THEN <<>>
    ELSE (IF Flags(d, rules[x], i) THEN <<rules[x].tag>> ELSE <<>>)
         \o combine_issues(d, rules, i, x + 1)

DetectWith(d, rules) ==
    [df |-> SetColumn(d, "issues",
                      [i \in DOMAIN d.rows |-> Str(combine_issues(d, rules, i, 1))]),
     logs |-> [x \in DOMAIN rules |->
                 [rule |-> rules[x].tag,
                  count |-> Cardinality({i \in DOMAIN d.rows : Flags(d, rules[x], i)})]]]

\* detect_issues: the frame with its issues column, and one log entry per
\* rule run giving the number of rows it flags
detect_issues(d) == DetectWith(d, DetectRules(d))

----------------------------------------------------------------------------
(* agents/correction_agent.py                                              *)

\* old != new in Python: NaN differs from everything, itself included
Differs(old, new) == IsNull(old) \/ IsNull(new) \/ old # new

\* the (idx, old, new) triples of a step: the rows whose cell of column c
\* differs between the frames before and after
column_changes(before, after, c) ==
    {i \in DOMAIN after.rows : Differs(before.rows[i][c], after.rows[i][c])}

\* lines 40-41: astype(str).str.title().str.strip(), then the blank and
\* "nan" spellings become Unknown
standardize_name(c) ==
    LET t == Strip(Title(AsStr(c)))
    IN  IF t \in {<<"N","a","n">>, <<"n","a","n">>, <<>>} THEN Str(Unknown) ELSE Str(t)

\* keep='last': the rows no later row equals in every column
last_occurrences(d) ==
    {i \in DOMAIN d.rows : \A j \in (i + 1)..Len(d.rows) : d.rows[j] # d.rows[i]}

\* the rows no earlier row equals in every column
first_occurrences(d) ==
    {i \in DOMAIN d.rows : \A j \in 1..(i - 1) : d.rows[j] # d.rows[i]}

\* the elements of s at the positions in idx, in the order of s
RECURSIVE Pick(_, _, _)
Pick(s, idx, i) ==
    IF i > Len(s) THEN <<>>
    ELSE (IF i \in idx THEN <<s[i]>> ELSE <<>>) \o Pick(s, idx, i + 1)

\* df.drop_duplicates(keep='first'): the first occurrences stay, in order
drop_duplicates(d) == Frame(d.cols, Pick(d.rows, first_occurrences(d), 1))

CountryThreshold == 70
CityThreshold == 40

\* process.extractOne(val, vocabulary, scorer=fuzz.token_sort_ratio): the
\* best entry of the vocabulary and its score, as the scoring library
\* gives them.  sc is that library's answer for each text it is asked.
extractOne(val, vocabulary, sc) ==
    [match |-> vocabulary[sc[val].idx], score |-> sc[val].score]

\* fuzzy_match, with a value that finds no match left as it is
fuzzy_match_keeps_unmatched(c, vocabulary, threshold, sc) ==
    LET val_clean == Title(Strip(AsStr(c)))
    IN  IF IsNull(c) \/ val_clean = <<>> \/ val_clean = Unknown THEN Str(Unknown)
        ELSE IF val_clean \in Range(vocabulary) THEN Str(val_clean)
        ELSE LET best == extractOne(val_clean, vocabulary, sc)
             IN  IF best.score > threshold THEN Str(best.match) ELSE Str(val_clean)

\* match_country / match_city: the two differ in vocabulary and threshold
fuzzy_match(c, vocabulary, threshold, sc) ==
    LET val_clean == Title(Strip(AsStr(c)))
    IN  IF IsNull(c) \/ val_clean = <<>> \/ val_clean = Unknown THEN Str(Unknown)
        ELSE IF val_clean \in Range(vocabulary) THEN Str(val_clean)
        ELSE LET best == extractOne(val_clean, vocabulary, sc)
             IN  IF best.score > threshold THEN Str(best.match) ELSE Str(Unknown)

match_country(c, sc) == fuzzy_match(c, CANONICAL_COUNTRIES, CountryThreshold, sc)

match_city(c, sc) == fuzzy_match(c, CANONICAL_CITIES, CityThreshold, sc)

\* whether the scoring library is consulted for cell c
consults_scorer(c, vocabulary) ==
    LET val_clean == Title(Strip(AsStr(c)))
    IN  ~(IsNull(c) \/ val_clean = <<>> \/ val_clean = Unknown)
        /\ val_clean \notin Range(vocabulary)

\* s sorted in ascending order (s a sequence of integers)
RECURSIVE SortInts(_)
SortInts(s) ==
    IF s = <<>> THEN <<>>
    ELSE LET m == CHOOSE x \in Range(s) : \A y \in Range(s) : x <= y
             at == CHOOSE i \in DOMAIN s : s[i] = m
         IN  <<m>> \o SortInts(SubSeq(s, 1, at - 1) \o SubSeq(s, at + 1, Len(s)))

\* Series.median() of the cells: NaN for none, the middle one, or the mean
\* of the two middle ones (exact, in halves, for whole numbers)
median(cells) ==
    LET s == SortInts([i \in DOMAIN cells |-> cells[i].n])
        n == Len(s)
    IN  IF n = 0 THEN NaN
        ELSE IF n % 2 = 1 THEN Num(s[(n + 1) \div 2])
        ELSE Num((s[n \div 2] + s[(n \div 2) + 1]) \div 2)

\* line 71: the median of the ages that are numbers with 0 < x < 120
median_age(d) ==
    median(SelectSeq(Column(d, "age"),
                     LAMBDA c : IsNumber(c) /\ ~IsNull(c) /\ 0 < c.n /\ c.n < MaxAge))

\* line 73
correct_age(c, med) ==
    IF IsNull(c) \/ ~IsNumber(c) \/ c.n <= 0 \/ c.n > MaxAge THEN med ELSE c

\* line 81
correct_loyalty(c) == IF IsNull(c) \/ ~IsNumber(c) \/ c.n < 0 THEN Num(0) ELSE c

\* line 89
correct_gender(c) == IF IsIn(c, GENDERS) THEN c ELSE Str(<<"O","t","h","e","r">>)

\* line 97
correct_marital(c) ==
    IF IsIn(c, MARITAL_STATUSES) THEN c ELSE Str(<<"S","i","n","g","l","e">>)

PhoneWidth == 8

\* lines 105-106: the digits, left-padded with 0 to 8, then the last 8 as
\* DDDD-DDDD, or 0000-0000 when fewer than 8 are there
correct_phone(c) ==
    LET x == PadLeft(DigitsOnly(AsStr(c)), PhoneWidth)
        n == Len(x)
    IN  IF n >= PhoneWidth
        THEN Str(SubSeq(x, n - 7, n - 4) \o <<"-">> \o SubSeq(x, n - 3, n))
        ELSE Str(<<"0","0","0","0","-","0","0","0","0">>)

\* a step's log entry: the rows whose cell of column c changed, if any
LogStep(r, c, after) ==
    [df |-> after,
     logs |-> IF column_changes(r.df, after, c) # {}
              THEN Append(r.logs, [step |-> c, rows |-> column_changes(r.df, after, c)])
              ELSE r.logs]

LogDedup(r, after) ==
    [df |-> after,
     logs |-> IF Len(after.rows) # Len(r.df.rows)
              THEN Append(r.logs, [step |-> "duplicates",
                                   rows |-> {Len(r.df.rows) - Len(after.rows)}])
              ELSE r.logs]

\* One step of correct_issues on r = [df, logs]: column c goes through F
\* when it is present, and the step is logged when it changed a cell.
Step(r, c, F(_)) ==
    IF c \in r.df.cols
    THEN LogStep(r, c, MapColumn(r.df, c, F))
    ELSE r

AgeWith(r, med) == Step(r, "age", LAMBDA c : correct_age(c, med))

\* lines 47-51: the duplicates go, and their number is logged
DedupStep(r) == LogDedup(r, drop_duplicates(r.df))

\* lines 70-76: the median is taken over the frame as it is at this step
AgeStep(r) ==
    IF "age" \in r.df.cols THEN AgeWith(r, median_age(r.df)) ELSE r

\* lines 128-130
Finish(r) ==
    [df |-> IF "issues" \in r.df.cols THEN DropColumn(r.df, "issues") ELSE r.df,
     logs |-> r.logs]

\* lines 37-44: the name columns
standardize_names(r) ==
    Step(Step(Step(r, "first_name", standardize_name),
              "last_name", standardize_name),
         "full_name", standardize_name)

\* correct_issues: the steps in the order of the code, each on the result
\* of the one before
correct_issues(d, sc) ==
    Finish(
    Step(
    Step(
    Step(
    Step(
    Step(
    AgeStep(
    Step(
    DedupStep(
    standardize_names([df |-> d, logs |-> <<>>])),
         "country", LAMBDA c : match_country(c, sc))),
         "loyalty_points", correct_loyalty),
         "gender", correct_gender),
         "marital_status", correct_marital),
         "phone", correct_phone),
         "city", LAMBDA c : match_city(c, sc)))

----------------------------------------------------------------------------
(* agents/enrichment_agent.py                                              *)
(*                                                                         *)
(* A response text is the sequence of its lines, and a line the sequence   *)
(* of the fields csv.reader splits it into.  The fields of the first line  *)
(* are column names, those of the other lines are texts.  A code-fence     *)
(* line is a line whose only field is the fence marker.                    *)

\* the opening marker, three backquotes and csv, and the closing one
FenceOpen == <<"[fence]csv">>
FenceClose == <<"[fence]">>

\* gemini_generate: the text of the answer, or the text Unknown when
\* the call raises
gemini_generate(gen) == IF gen.ok THEN gen.text ELSE << <<"Unknown">> >>

RECURSIVE StripLines(_)
StripLines(lines) ==
    IF lines # <<>> /\ Head(lines) = <<>> THEN StripLines(Tail(lines))
    ELSE IF lines # <<>> /\ lines[Len(lines)] = <<>>
    THEN StripLines(SubSeq(lines, 1, Len(lines) - 1))
    ELSE lines

\* line 51: re.sub of the fence markers under re.MULTILINE, then strip():
\* an opening fence goes with its line break, a closing fence leaves an
\* empty line, and strip() removes the empty lines at both ends
strip_fences(lines) ==
    LET opened == SelectSeq(lines, LAMBDA l : l # FenceOpen)
        closed == [i \in DOMAIN opened |-> IF opened[i] = FenceClose THEN <<>> ELSE opened[i]]
    IN  StripLines(closed)

\* the texts pandas.read_csv reads as NaN
NaTexts ==
    { <<>>, <<"n","a","n">>, <<"N","a","N">>, <<"N","A">>, <<"N","/","A">>,
      <<"N","U","L","L">>, <<"n","u","l","l">>, <<"N","o","n","e">> }

\* a number as read_csv takes it: an optional sign, digits, and .0 or .5
IsNumText(t) ==
    LET body == IF t # <<>> /\ Head(t) = "-" THEN Tail(t) ELSE t
        n == Len(body)
        frac == n >= 3 /\ body[n - 1] = "." /\ body[n] \in {"0", "5"}
        digits == IF frac THEN SubSeq(body, 1, n - 2) ELSE body
    IN  digits # <<>> /\ \A i \in DOMAIN digits : IsDigit(digits[i])

NumCell(t) ==
    LET neg == Head(t) = "-"
        body == IF neg THEN Tail(t) ELSE t
        n == Len(body)
        frac == n >= 3 /\ body[n - 1] = "."
        digits == IF frac THEN SubSeq(body, 1, n - 2) ELSE body
        halves == 2 * TextNat(digits) + (IF frac /\ body[n] = "5" THEN 1 ELSE 0)
    IN  Num(IF neg THEN -halves ELSE halves)

\* pandas.read_csv on the kept lines: the first line names the columns; a
\* column whose fields are all numbers or NaN texts is numeric, any other
\* column keeps its fields as texts
read_csv(lines) ==
    LET header == lines[1]
        data == Tail(lines)
        at(c) == CHOOSE i \in DOMAIN header : header[i] = c
        numeric(c) == \A r \in DOMAIN data :
                          data[r][at(c)] \in NaTexts \/ IsNumText(data[r][at(c)])
        cell(c, t) == IF t \in NaTexts THEN NaN
                      ELSE IF numeric(c) THEN NumCell(t)
                      ELSE Str(t)
    IN  Frame(Range(header),
              [r \in DOMAIN data |-> [c \in Range(header) |-> cell(c, data[r][at(c)])]])

MissingLike == { <<>>, <<"m","i","s","s","i","n","g">>, <<"u","n","k","n","o","w","n">>,
                 <<"n","a","n">> }

\* str(x).strip().lower() in ["", "missing", "unknown", "nan"]
missing_like(c) == Lower(Strip(AsStr(c))) \in MissingLike

\* lines 57-61: the parse fails when response.splitlines()[0] raises;
\* otherwise the frame is read from the lines that have as many fields as
\* the first one
parse_response(response) ==
    IF response = <<>> THEN [ok |-> FALSE, df |-> Frame({}, <<>>)]
    ELSE [ok |-> TRUE,
          df |-> read_csv(SelectSeq(response, LAMBDA l : Len(l) = Len(response[1])))]

\* lines 63-75: the log of a parsed response
EnrichLogs(d, enriched_df) ==
    LET both == 1..(IF Len(d.rows) < Len(enriched_df.rows) THEN Len(d.rows)
                    ELSE Len(enriched_df.rows))
        filled(c) == {i \in both : missing_like(d.rows[i][c])
                                   /\ ~missing_like(enriched_df.rows[i][c])}
    IN  [kind : {"filled"}, col : {c \in d.cols \cap enriched_df.cols : filled(c) # {}}]
        \cup [kind : {"new column"}, col : enriched_df.cols \ d.cols]
        \cup {[kind |-> "enriched", col |-> "*"]}

\* lines 80-81: df['issues'] = ''
clear_issues(d) ==
    IF "issues" \in d.cols
    THEN SetColumn(d, "issues", [i \in DOMAIN d.rows |-> Str(<<>>)])
    ELSE d

\* lines 55-81 once the response is parsed or has failed to parse
EnrichWith(d, parsed) ==
    IF parsed.ok
    THEN [df |-> clear_issues(parsed.df), logs |-> EnrichLogs(d, parsed.df)]
    ELSE [df |-> clear_issues(d), logs |-> {[kind |-> "parse error", col |-> "*"]}]

\* enrich_data, given what the generate call does (gen.ok: it returns
\* gen.text; otherwise it raises)
enrich_data(d, gen) == EnrichWith(d, parse_response(strip_fences(gemini_generate(gen))))

----------------------------------------------------------------------------
(* cli.py                                                                  *)

\* a loop bound one too large
max_iterations_off_by_one == 3 + 1

max_iterations == 3

\* line 46, with <= for <
loop_continues_once_more(i) == i <= max_iterations

\* line 46: while iteration < max_iterations
loop_continues(i) == i < max_iterations

\* needs_correction: some issues text is non-empty
needs_correction(d) ==
    "issues" \in d.cols /\ \E i \in DOMAIN d.rows : Strip(AsStr(d.rows[i]["issues"])) # <<>>

\* needs_enrichment, answering yes whatever the frame holds
needs_enrichment_always(d) == d = d

\* needs_enrichment: a null or missing-like cell outside the issues column
needs_enrichment(d) ==
    \E c \in d.cols \ {"issues"} : \E i \in DOMAIN d.rows :
        IsNull(d.rows[i][c]) \/ missing_like(d.rows[i][c])

----------------------------------------------------------------------------
(* The inputs of the pipeline: the CSV files read by line 42, the answers  *)
(* of the scoring library, and the answers of the generate call.           *)

\* rows per input file of the pipeline
MaxInputRows == 2

\* the frames: every sequence of at most n rows drawn from a set of rows
Frames(cols, rowset, n) ==
    {Frame(cols, rows) : rows \in UNION {[1..k -> rowset] : k \in 0..n}}

PipelineCols == {"full_name", "email", "phone", "age", "country"}

CleanRow ==
    [c \in PipelineCols |->
        CASE c = "full_name" -> Str(<<"B","o","b">>)
          [] c = "email" -> Str(<<"b","@","x",".","c","o">>)
          [] c = "phone" -> Str(<<"5","5","5","-","1","2","3","4">>)
          [] c = "age" -> Whole(30)
          [] c = "country" -> Str(<<"I","n","d","i","a">>)]

\* the clean row and the rows that differ from it in one cell
PipelineRows ==
    { CleanRow,
      [CleanRow EXCEPT !["full_name"] = Str(<<"b","o","b">>)],
      [CleanRow EXCEPT !["country"] = Str(<<"i","n","d","i","a">>)],
      [CleanRow EXCEPT !["country"] = Str(<<"I","n","d","a","i">>)],
      [CleanRow EXCEPT !["country"] = NaN],
      [CleanRow EXCEPT !["email"] = Str(<<"b","x">>)],
      [CleanRow EXCEPT !["age"] = Whole(-5)] }

Inputs == Frames(PipelineCols, PipelineRows, MaxInputRows)

\* the texts the scoring library is asked about, and its possible answers:
\* the entry it finds best and the score, above both thresholds, between
\* them, or below both
Candidates == {<<"I","n","d","a","i">>, <<"U","a","e">>, <<"G","o","t","a","m">>}

Outcomes == {[idx |-> 2, score |-> 71], [idx |-> 2, score |-> 70], [idx |-> 2, score |-> 40]}

\* a library that compares without regard to case finds UAE itself for Uae
CaseBlind == [idx |-> IndexIn(<<"U","A","E">>, CANONICAL_COUNTRIES), score |-> 100]

Scorers ==
    {sc \in [Candidates -> Outcomes \cup {CaseBlind}] :
        \A t \in Candidates \ {<<"U","a","e">>} : sc[t] # CaseBlind}

\* the candidates that occur in frame d
Asked(d) ==
    {t \in Candidates : \E c \in d.cols \cap {"country", "city"} : \E i \in DOMAIN d.rows :
        Title(Strip(AsStr(d.rows[i][c]))) = t}

\* one scorer for each way of answering the candidates of d (the answers
\* to texts it is never asked about make no difference)
ScorersFor(d) ==
    {sc \in Scorers : \A t \in Candidates \ Asked(d) : sc[t] = [idx |-> 2, score |-> 71]}

\* the order of the columns in a CSV header
ColumnOrder ==
    <<"full_name", "email", "phone", "gender", "marital_status", "age",
      "loyalty_points", "country", "city", "Unknown", "is_loyal_customer",
      "customer_persona">>

Header(d) ==
    SelectSeq(ColumnOrder, LAMBDA c : c \in d.cols \cup {"is_loyal_customer", "customer_persona"})

\* a plausible value for a missing cell of column c
FillText(c) ==
    CASE c = "full_name" -> <<"A","n","n">>
      [] c = "email" -> <<"a","@","y",".","i","o">>
      [] c = "phone" -> <<"0","5","5","5","-","0","0","0","0">>
      [] c = "gender" -> <<"F","e","m","a","l","e">>
      [] c = "marital_status" -> <<"M","a","r","r","i","e","d">>
      [] c = "age" -> <<"4","1">>
      [] c = "loyalty_points" -> <<"7">>
      [] c = "country" -> <<"C","a","n","a","d","a">>
      [] c = "city" -> <<"M","i","a","m","i">>
      [] c = "is_loyal_customer" -> <<"Y","e","s">>
      [] OTHER -> <<"S","a","v","e","r">>

\* the answer's line for a row of d: its cells as texts, the missing ones
\* filled or left as the text Unknown
AnswerLine(d, row, fill) ==
    LET h == Header(d)
    IN  [x \in DOMAIN h |->
            IF h[x] \notin d.cols THEN FillText(h[x])
            ELSE IF IsNull(row[h[x]]) \/ missing_like(row[h[x]])
            THEN (IF fill THEN FillText(h[x]) ELSE Unknown)
            ELSE AsStr(row[h[x]])]

Answer(d, fill) == <<Header(d)>> \o [i \in DOMAIN d.rows |-> AnswerLine(d, d.rows[i], fill)]

\* every data line one field short of the header
ShortAnswer(d) ==
    <<Header(d)>>
    \o [i \in DOMAIN d.rows |->
           SubSeq(AnswerLine(d, d.rows[i], TRUE), 1, Len(Header(d)) - 1)]

\* what the generate call may do for the prompt built from d: raise,
\* answer nothing, answer lines that are all a field short, answer the
\* filled table inside a code fence, or answer the table with nothing filled
Generations(d) ==
    { [ok |-> FALSE, text |-> <<>>],
      [ok |-> TRUE, text |-> <<>>],
      [ok |-> TRUE, text |-> ShortAnswer(d)],
      [ok |-> TRUE, text |-> <<FenceOpen>> \o Answer(d, TRUE) \o <<FenceClose>>],
      [ok |-> TRUE, text |-> Answer(d, FALSE)] }

NoFile == [written |-> FALSE, df |-> Frame({}, <<>>)]

NoCall == [stage |-> "none", arg |-> Frame({}, <<>>), res |-> Frame({}, <<>>),
           logs |-> {}, gen |-> [ok |-> TRUE, text |-> <<>>]]

Info(msg) == [level |-> "INFO", msg |-> msg]
Warning(msg) == [level |-> "WARNING", msg |-> msg]
Error(msg) == [level |-> "ERROR", msg |-> msg]

\* for entry in logs: logging.info(f"[... Agent] {entry}")
AgentLines(agent, n) == [i \in 1..n |-> Info(agent)]

\* lines 46-54, 84-86: one pass of the loop up to the decision to correct
Detect ==
    /\ pc = "detect"
    /\ loop_continues(iteration)
    /\ \E r \in {detect_issues(df)} :
           /\ df' = r.df
           /\ last' = [NoCall EXCEPT !.stage = "detect", !.arg = df, !.res = r.df]
           /\ IF needs_correction(r.df)
              THEN /\ pc' = "correct"
                   /\ log' = log \o <<Info("Pipeline Iteration")>>
                                 \o AgentLines("[Detection Agent]", Len(r.logs))
                                 \o <<Info("Correction needed")>>
              ELSE /\ pc' = "save"
                   /\ log' = log \o <<Info("Pipeline Iteration")>>
                                 \o AgentLines("[Detection Agent]", Len(r.logs))
                                 \o <<Info("No correction needed after detection")>>
    /\ iteration' = iteration + 1
    /\ calls' = [calls EXCEPT !.detect = @ + 1]
    /\ trace' = Append(trace, "detect")
    /\ UNCHANGED <<output, exitCode, scorer>>

\* lines 56-60, 81-83: correction and the decision to enrich
Correct ==
    /\ pc = "correct"
    /\ \E r \in {correct_issues(df, scorer)} :
           /\ df' = r.df
           /\ last' = [NoCall EXCEPT !.stage = "correct", !.arg = df, !.res = r.df]
           /\ IF needs_enrichment(r.df)
              THEN /\ pc' = "enrich"
                   /\ log' = log \o AgentLines("[Correction Agent]", Len(r.logs))
                                 \o <<Info("Enrichment needed after correction")>>
              ELSE /\ pc' = "save"
                   /\ log' = log \o AgentLines("[Correction Agent]", Len(r.logs))
                                 \o <<Info("No enrichment needed after correction")>>
    /\ calls' = [calls EXCEPT !.correct = @ + 1]
    /\ trace' = Append(trace, "correct")
    /\ UNCHANGED <<iteration, output, exitCode, scorer>>

\* lines 62-66: enrichment, whatever the generate call does
Enrich ==
    /\ pc = "enrich"
    /\ \E gen \in Generations(df) : \E r \in {enrich_data(df, gen)} :
            /\ df' = r.df
            /\ last' = [stage |-> "enrich", arg |-> df, res |-> r.df,
                        logs |-> r.logs, gen |-> gen]
            /\ log' = log \o AgentLines("[Enrichment Agent]", Cardinality(r.logs))
                          \o <<Info("Forwarding to Detection Agent for re-check")>>
    /\ pc' = IF iteration = max_iterations THEN "recheck" ELSE "detect"
    /\ calls' = [calls EXCEPT !.enrich = @ + 1]
    /\ trace' = Append(trace, "enrich")
    /\ UNCHANGED <<iteration, output, exitCode, scorer>>

\* lines 67-80: the re-check of the last iteration.  'issues' of a frame
\* without rows is not a text column, and .str on it raises or not with
\* the pandas at hand: both outcomes are taken.
Recheck ==
    /\ pc = "recheck"
    /\ \E r \in {detect_issues(df)} :
       \E lines \in {log \o AgentLines("[Detection Agent]", Len(r.logs))} :
           /\ df' = r.df
           /\ last' = [NoCall EXCEPT !.stage = "detect", !.arg = df, !.res = r.df]
           /\ \/ /\ needs_correction(r.df)
                 /\ pc' = "detect"
                 /\ exitCode' = exitCode
                 /\ log' = lines \o <<Warning("Maximum iterations reached")>>
              \/ /\ ~needs_correction(r.df)
                 /\ pc' = "detect"
                 /\ exitCode' = exitCode
                 /\ log' = lines \o <<Info("All issues resolved")>>
              \/ /\ r.df.rows = <<>>
                 /\ pc' = "failed"
                 /\ exitCode' = 1
                 /\ log' = lines \o <<Error("Pipeline failed")>>
    /\ calls' = [calls EXCEPT !.detect = @ + 1]
    /\ trace' = Append(trace, "detect")
    /\ UNCHANGED <<iteration, output, scorer>>

\* line 46: the loop ends when the iterations are used up
LoopEnd ==
    /\ pc = "detect"
    /\ ~loop_continues(iteration)
    /\ pc' = "save"
    /\ UNCHANGED <<df, iteration, calls, trace, last, output, exitCode, log, scorer>>

\* lines 88-90: df.to_csv(output, index=False)
Save ==
    /\ pc = "save"
    /\ output' = [written |-> TRUE, df |-> df]
    /\ exitCode' = 0
    /\ pc' = "done"
    /\ log' = Append(log, Info("Saved cleaned CSV"))
    /\ UNCHANGED <<df, iteration, calls, trace, last, scorer>>

\* line 42: pd.read_csv(input)
Load ==
    /\ pc = "load"
    /\ \E d \in Inputs : df' = d /\ scorer' \in ScorersFor(d)
    /\ pc' = "detect"
    /\ log' = Append(log, Info("Loaded input CSV"))
    /\ UNCHANGED <<iteration, calls, trace, last, output, exitCode>>

\* lines 91-94, with the frame at hand written before the exit
Raise_writes_file ==
    /\ pc \in {"load", "detect", "correct", "enrich", "recheck"}
    /\ pc = "detect" => loop_continues(iteration)
    /\ iteration' = IF pc = "detect" THEN iteration + 1 ELSE iteration
    /\ calls' = CASE pc \in {"detect", "recheck"} -> [calls EXCEPT !.detect = @ + 1]
                  [] pc = "correct" -> [calls EXCEPT !.correct = @ + 1]
                  [] pc = "enrich" -> [calls EXCEPT !.enrich = @ + 1]
                  [] OTHER -> calls
    /\ trace' = CASE pc \in {"detect", "recheck"} -> Append(trace, "detect")
                  [] pc = "load" -> trace
                  [] OTHER -> Append(trace, pc)
    /\ pc' = "failed"
    /\ exitCode' = 1
    /\ log' = Append(log, Error("Pipeline failed"))
    /\ output' = [written |-> TRUE, df |-> df]
    /\ UNCHANGED <<df, last, scorer>>

\* lines 91-94: the load or a stage raises; main logs the error and exits
\* with status 1 without reaching line 88
Raise ==
    /\ pc \in {"load", "detect", "correct", "enrich", "recheck"}
    /\ pc = "detect" => loop_continues(iteration)
    /\ iteration' = IF pc = "detect" THEN iteration + 1 ELSE iteration
    /\ calls' = CASE pc \in {"detect", "recheck"} -> [calls EXCEPT !.detect = @ + 1]
                  [] pc = "correct" -> [calls EXCEPT !.correct = @ + 1]
                  [] pc = "enrich" -> [calls EXCEPT !.enrich = @ + 1]
                  [] OTHER -> calls
    /\ trace' = CASE pc \in {"detect", "recheck"} -> Append(trace, "detect")
                  [] pc = "load" -> trace
                  [] OTHER -> Append(trace, pc)
    /\ pc' = "failed"
    /\ exitCode' = 1
    /\ log' = Append(log, Error("Pipeline failed"))
    /\ UNCHANGED <<df, last, output, scorer>>

Init ==
    /\ pc = "load"
    /\ df = Frame({}, <<>>)
    /\ iteration = 0
    /\ calls = [detect |-> 0, correct |-> 0, enrich |-> 0]
    /\ trace = <<>>
    /\ last = NoCall
    /\ output = NoFile
    /\ exitCode = -1
    /\ log = <<>>
    /\ scorer = [t \in Candidates |-> [idx |-> 2, score |-> 71]]

Next ==
    \/ Load
    \/ Detect
    \/ Correct
    \/ Enrich
    \/ Recheck
    \/ LoopEnd
    \/ Save
    \/ Raise

Spec == Init /\ [][Next]_vars

----------------------------------------------------------------------------
(* The stages on their own: detect_issues and correct_issues applied to a  *)
(* frame as a caller may hand it to them, correction up to twice in        *)
(* succession.  pc is "fn" throughout; trace gives the calls made.         *)

\* rows per frame handed to a stage
MaxRows == 3

NameCols == {"full_name", "email"}

NameRows ==
    { [c \in NameCols |-> IF c = "full_name" THEN Str(<<"b","o","b">>) ELSE Str(<<"b","@","x",".","c","o">>)],
      [c \in NameCols |-> IF c = "full_name" THEN Str(<<"B","o","b">>) ELSE Str(<<"b","@","x",".","c","o">>)],
      [c \in NameCols |-> IF c = "full_name" THEN Str(<<"B","o","b">>) ELSE Str(<<"c","@","x",".","c","o">>)],
      [c \in NameCols |-> IF c = "full_name" THEN NaN ELSE Str(<<"b","@","x",".","c","o">>)] }

\* the rows of a frame with the single column c, one for each cell
OneColumn(c, cells) == {[x \in {c} |-> v] : v \in cells}

CountryCells == {Str(<<"I","n","d","i","a">>), Str(<<"i","n","d","i","a">>), Str(<<"I","n","d","a","i">>), Str(<<"U","A","E">>), NaN}

CityCells == {Str(<<"G","o","t","h","a","m">>), Str(<<"g","o","t","a","m">>), Str(<<"U","n","k","n","o","w","n">>), NaN}

AgeCells == {Whole(-5), Whole(30), Whole(45), Whole(120), NaN}

\* an age column that holds a text is read as texts throughout
AgeTextCells == {Str(<<"a","b","c">>), Str(<<"3","0">>)}

LoyaltyCells == {Whole(-1), Whole(0), Whole(5), NaN}

PhoneCells == {Str(<<"5","5","5","-","1","2","3","4">>), Str(<<"1","2","-","3","4">>), Str(<<"5","5","5","-","1","2","3","-","4","5","6","7">>), NaN}

StatusCols == {"gender", "marital_status"}

StatusRows ==
    { [c \in StatusCols |-> IF c = "gender" THEN Str(<<"M","a","l","e">>) ELSE Str(<<"S","i","n","g","l","e">>)],
      [c \in StatusCols |-> IF c = "gender" THEN Str(<<"M">>) ELSE Str(<<"S","i","n","g","l","e">>)],
      [c \in StatusCols |-> IF c = "gender" THEN Str(<<"M","a","l","e">>) ELSE Str(<<"x">>)],
      [c \in StatusCols |-> IF c = "gender" THEN NaN ELSE Str(<<"M","a","r","r","i","e","d">>)] }

StageInputs ==
    Frames(NameCols, NameRows, MaxRows)
    \cup Frames({"country"}, OneColumn("country", CountryCells), MaxRows)
    \cup Frames({"city"}, OneColumn("city", CityCells), MaxRows)
    \cup Frames({"age"}, OneColumn("age", AgeCells), MaxRows)
    \cup Frames({"age"}, OneColumn("age", AgeTextCells), MaxRows)
    \cup Frames({"loyalty_points"}, OneColumn("loyalty_points", LoyaltyCells), MaxRows)
    \cup Frames({"phone"}, OneColumn("phone", PhoneCells), MaxRows)
    \cup Frames(StatusCols, StatusRows, MaxRows)
    \cup Inputs

\* a call of detect_issues on the frame as given
FnDetect ==
    /\ pc = "fn"
    /\ trace = <<>>
    /\ \E r \in {detect_issues(df)} :
           /\ df' = r.df
           /\ last' = [NoCall EXCEPT !.stage = "detect", !.arg = df, !.res = r.df]
    /\ calls' = [calls EXCEPT !.detect = @ + 1]
    /\ trace' = Append(trace, "detect")
    /\ UNCHANGED <<pc, iteration, output, exitCode, log, scorer>>

\* a call of correct_issues: on the frame as given, on the result of
\* detection, or on its own result
FnCorrect ==
    /\ pc = "fn"
    /\ calls.correct < 2
    /\ \E r \in {correct_issues(df, scorer)} :
           /\ df' = r.df
           /\ last' = [NoCall EXCEPT !.stage = "correct", !.arg = df, !.res = r.df]
    /\ calls' = [calls EXCEPT !.correct = @ + 1]
    /\ trace' = Append(trace, "correct")
    /\ UNCHANGED <<pc, iteration, output, exitCode, log, scorer>>

FnInit ==
    /\ pc = "fn"
    /\ df \in StageInputs
    /\ scorer \in ScorersFor(df)
    /\ iteration = 0
    /\ calls = [detect |-> 0, correct |-> 0, enrich |-> 0]
    /\ trace = <<>>
    /\ last = NoCall
    /\ output = NoFile
    /\ exitCode = -1
    /\ log = <<>>

FnNext == FnDetect \/ FnCorrect

FnSpec == FnInit /\ [][FnNext]_vars

----------------------------------------------------------------------------
(* The claims about a run of cli.main, checked under Spec.                 *)

LastMsg == IF log = <<>> THEN "" ELSE log[Len(log)].msg

Logged(msg) == \E i \in DOMAIN log : log[i].msg = msg

\* the same rows, columns and cells, the issues column apart
SameData(a, b) == DropColumn(a, "issues") = DropColumn(b, "issues")

\* C1 as stated: detect_issues is invoked at most 3 times in a run, the
\* re-check after the last enrichment included.
C1_AtMostThreeDetections == calls.detect <= 3

\* C1, amended: detect_issues is invoked at most 4 times in a run, at most
\* 3 times at the start of an iteration and at most once more as the
\* re-check after the enrichment of the third iteration.
C1_AtMostFourDetections ==
    /\ calls.detect <= 4
    /\ calls.detect = 4 => iteration = 3 /\ calls.enrich = 3

\* a run that ended after four detections
C1_FourDetections == pc = "done" /\ calls.detect = 4

\* C2: when the generate call raises, enrich_data returns the frame it was
\* given, with a failure entry in its log (and returns normally).
C2_FailedGenerateKeepsFrame ==
    (last.stage = "enrich" /\ ~last.gen.ok) =>
        /\ SameData(last.res, last.arg)
        /\ [kind |-> "parse error", col |-> "*"] \in last.logs

\* C3: when the response is not empty and none of its data lines has the
\* field count of its header line, enrich_data returns the frame it was
\* given, with a parse-error entry in its log.
C3_AllLinesShortKeepsFrame ==
    (/\ last.stage = "enrich"
     /\ last.gen.ok
     /\ Len(last.gen.text) >= 2
     /\ \A i \in 2..Len(last.gen.text) : Len(last.gen.text[i]) # Len(last.gen.text[1])) =>
        /\ SameData(last.res, last.arg)
        /\ [kind |-> "parse error", col |-> "*"] \in last.logs

\* the run ended in one of the three ways that count as success
Succeeded ==
    /\ pc = "done"
    /\ \/ Logged("No correction needed after detection")
       \/ Logged("No enrichment needed after correction")
       \/ Logged("All issues resolved")

\* C5: the frame written by a run that ended successfully has no issues
\* column.
C5_NoIssuesColumnOnSuccess == Succeeded => "issues" \notin output.df.cols

\* a run makes at most 3 iterations, so at most 3 corrections and 3
\* enrichments; once the third iteration has made its re-check no stage is
\* started again, whatever the re-check found
Bounded ==
    /\ iteration <= 3
    /\ calls.correct <= 3
    /\ calls.enrich <= 3
    /\ calls.correct <= iteration
    /\ calls.enrich <= calls.correct
    /\ calls.detect = 4 => pc \in {"detect", "save", "done", "failed"}
    /\ (pc = "detect" /\ iteration = 3) => ~ENABLED Detect

\* the number of steps a run may still take is bounded by Variant, which
\* every step of the run decreases
PcRank ==
    CASE pc = "load" -> 6
      [] pc = "correct" -> 5
      [] pc = "enrich" -> 4
      [] pc = "recheck" -> 3
      [] pc = "detect" -> 2
      [] pc = "save" -> 1
      [] OTHER -> 0

Variant == 5 * (3 - iteration) + PcRank

\* C8: every run ends after at most 3 iterations of the loop: correction
\* and enrichment run at most 3 times each, nothing is started after the
\* third iteration even when its re-check reports issues, and every step
\* of a run brings its end nearer.
C8_Terminates == []Bounded /\ [][Variant' < Variant /\ Variant' >= 0]_vars

\* a run that used its three iterations and ended with issues left
C8_CapWithIssuesLeft ==
    /\ pc = "done"
    /\ calls.correct = 3
    /\ calls.enrich = 3
    /\ Logged("Maximum iterations reached")

\* C9: when the load or a stage raises, nothing is written to the output
\* file, the error is logged and the exit status is not 0.
C9_FailureWritesNothing ==
    pc = "failed" =>
        /\ output = NoFile
        /\ exitCode # 0
        /\ exitCode # -1
        /\ log[Len(log)].level = "ERROR"

\* the second enrichment of a run raised
C9_StageRaised == pc = "failed" /\ calls.enrich = 2 /\ output = NoFile

----------------------------------------------------------------------------
(* The claims about detect_issues and correct_issues, checked under        *)
(* FnSpec.                                                                 *)

Corrected == last.stage = "correct"

\* the last two calls were both of correct_issues
CorrectedTwice ==
    /\ Corrected
    /\ Len(trace) >= 2
    /\ trace[Len(trace) - 1] = "correct"

\* C4: correct_issues run on its own result returns it as it is: the same
\* rows in the same order with the same cells.
C4_CorrectionIdempotent == CorrectedTwice => last.res = last.arg

PlausibleAge(c) == c.k = "num" /\ c.n > 0 /\ c.n <= MaxAge

\* C6: after correct_issues every age is a number in (0, 120] and every
\* loyalty_points a number >= 0, in the columns the frame has.
C6_AgeAndLoyaltyInRange ==
    Corrected =>
        \A i \in DOMAIN last.res.rows :
            /\ "age" \in last.res.cols => PlausibleAge(last.res.rows[i]["age"])
            /\ "loyalty_points" \in last.res.cols =>
                   /\ last.res.rows[i]["loyalty_points"].k = "num"
                   /\ last.res.rows[i]["loyalty_points"].n >= 0

\* C7: after correct_issues every country is Unknown or in the country
\* vocabulary, every city Unknown or in the city vocabulary, every gender
\* in GENDERS and every marital_status in MARITAL_STATUSES, in the columns
\* the frame has.
C7_CanonicalAfterCorrection ==
    Corrected =>
        \A i \in DOMAIN last.res.rows :
            /\ "country" \in last.res.cols =>
                   \/ last.res.rows[i]["country"] = Str(Unknown)
                   \/ IsIn(last.res.rows[i]["country"], CANONICAL_COUNTRIES)
            /\ "city" \in last.res.cols =>
                   \/ last.res.rows[i]["city"] = Str(Unknown)
                   \/ IsIn(last.res.rows[i]["city"], CANONICAL_CITIES)
            /\ "gender" \in last.res.cols =>
                   IsIn(last.res.rows[i]["gender"], GENDERS)
            /\ "marital_status" \in last.res.cols =>
                   IsIn(last.res.rows[i]["marital_status"], MARITAL_STATUSES)

\* a correction that met a country off the vocabulary which the scorer
\* matched, and one it did not match
C7_MatchedAndUnmatched ==
    /\ Corrected
    /\ "country" \in last.arg.cols
    /\ Len(last.res.rows) = Len(last.arg.rows)
    /\ \E i, j \in DOMAIN last.arg.rows :
           /\ consults_scorer(last.arg.rows[i]["country"], CANONICAL_COUNTRIES)
           /\ last.res.rows[i]["country"] = Str(<<"I","n","d","i","a">>)
           /\ consults_scorer(last.arg.rows[j]["country"], CANONICAL_COUNTRIES)
           /\ last.res.rows[j]["country"] = Str(Unknown)

\* whether the issues cell of row i of d carries the tag
Tagged(d, i, tag) == tag \in Range(d.rows[i]["issues"].s)

\* detect_issues tags a record Duplicate exactly when some other record,
\* at any position, equals it in every column
DuplicatesTagged ==
    (last.stage = "detect") =>
        \A i \in DOMAIN last.arg.rows :
            Tagged(last.res, i, "Duplicate")
                <=> \E j \in DOMAIN last.arg.rows :
                        j # i /\ last.arg.rows[j] = last.arg.rows[i]

\* the rows of frame d that no earlier row of frame e equals, in order
Firsts(d, e) ==
    Pick(d.rows, {i \in DOMAIN e.rows : \A j \in 1..(i - 1) : e.rows[j] # e.rows[i]}, 1)

\* the email cells of the rows
Emails(rows) == [i \in DOMAIN rows |-> rows[i]["email"]]

\* C10 as stated: detection tags all members of a group of identical
\* records, and correct_issues returns, in their order, the records of its
\* input that no earlier record of the input equals.  (The email column,
\* which correct_issues leaves alone, tells which records were kept.)
C10_FirstOfIdenticalKept ==
    /\ DuplicatesTagged
    /\ (Corrected /\ "email" \in last.arg.cols) =>
           Column(last.res, "email") = Emails(Firsts(last.arg, last.arg))

\* the frame after lines 37-44 of correct_issues
Named(d) == standardize_names([df |-> d, logs |-> <<>>]).df

\* C10, amended: detection tags all members of a group of identical
\* records, and correct_issues returns, in their order, the records of its
\* input that no earlier record equals once the name columns are
\* standardized.
C10_FirstOfStandardizedKept ==
    /\ DuplicatesTagged
    /\ (Corrected /\ "email" \in last.arg.cols) =>
           Column(last.res, "email") = Emails(Firsts(last.arg, Named(last.arg)))

\* of three records the last two are identical and the first differs from
\* them in the case of its name only: correction keeps the first alone
C10_GroupLeftWithoutItsFirst ==
    /\ Corrected
    /\ "email" \in last.arg.cols
    /\ Len(last.arg.rows) = 3
    /\ last.arg.rows[2] = last.arg.rows[3]
    /\ last.arg.rows[1] # last.arg.rows[2]
    /\ Len(last.res.rows) = 1
    /\ Column(last.res, "email") = Emails(<<last.arg.rows[1]>>)

\* the records of the input of the last correction that it kept, in order
Kept == Firsts(last.arg, Named(last.arg))

\* the last 8 of the digits, as DDDD-DDDD
LastEight(digits) ==
    SubSeq(digits, Len(digits) - 7, Len(digits) - 4) \o <<"-">>
        \o SubSeq(digits, Len(digits) - 3, Len(digits))

\* C11: correct_issues turns a phone that has fewer than 8 digits, once its
\* other characters are stripped, into 0000-0000, and a phone with 8 digits
\* or more into its last 8 digits as DDDD-DDDD.
C11_ShortPhoneBecomesSentinel ==
    (Corrected /\ "phone" \in last.arg.cols) =>
        \A m \in DOMAIN last.res.rows :
            last.res.rows[m]["phone"] =
                IF Len(DigitsOnly(AsStr(Kept[m]["phone"]))) < 8
                THEN Str(<<"0","0","0","0","-","0","0","0","0">>)
                ELSE Str(LastEight(DigitsOnly(AsStr(Kept[m]["phone"]))))

\* C13: correct_issues leaves a country that equals an entry of the country
\* vocabulary as it is, whatever the case of the entry's letters, and does
\* not consult the scoring library for it; likewise a city that equals an
\* entry of the city vocabulary.
C13_CanonicalPassesThrough ==
    Corrected =>
        \A m \in DOMAIN last.res.rows :
            /\ ("country" \in last.arg.cols /\ IsIn(Kept[m]["country"], CANONICAL_COUNTRIES)) =>
                   /\ last.res.rows[m]["country"] = Kept[m]["country"]
                   /\ ~consults_scorer(Kept[m]["country"], CANONICAL_COUNTRIES)
            /\ ("city" \in last.arg.cols /\ IsIn(Kept[m]["city"], CANONICAL_CITIES)) =>
                   /\ last.res.rows[m]["city"] = Kept[m]["city"]
                   /\ ~consults_scorer(Kept[m]["city"], CANONICAL_CITIES)

----------------------------------------------------------------------------
(* The claims about the order of the stages in a run, checked under Spec.  *)

\* the stage invoked last, "none" before the first
LastStage == IF trace = <<>> THEN "none" ELSE trace[Len(trace)]

\* some record of d carries a tag
SomeTagged(d) ==
    "issues" \in d.cols /\ \E i \in DOMAIN d.rows : d.rows[i]["issues"].s # <<>>

\* some cell of d outside the issues column is null, blank, Unknown, NaN
\* or MISSING, in any case of the letters
SomeMissing(d) ==
    \E c \in d.cols \ {"issues"} : \E i \in DOMAIN d.rows :
        \/ d.rows[i][c] = NaN
        \/ Lower(Strip(AsStr(d.rows[i][c]))) \in {<<>>, <<"m","i","s","s","i","n","g">>, <<"u","n","k","n","o","w","n">>, <<"n","a","n">>}

\* the stage a step invokes comes in its place
StagesInOrder ==
    trace' # trace =>
        /\ trace' = Append(trace, trace'[Len(trace')])
        /\ trace'[Len(trace')] = "detect" => LastStage \in {"none", "enrich"}
        /\ trace'[Len(trace')] = "correct" =>
               /\ LastStage = "detect"
               /\ last.stage = "detect"
               /\ SomeTagged(last.res)
               /\ df = last.res
        /\ trace'[Len(trace')] = "enrich" =>
               /\ LastStage = "correct"
               /\ last.stage = "correct"
               /\ SomeMissing(last.res)
               /\ df = last.res

\* no stage is invoked after a detection that tagged nothing or after a
\* correction that left nothing missing
StopsWhenClean ==
    /\ (LastStage = "detect" /\ last.stage = "detect" /\ ~SomeTagged(last.res)) =>
           trace' = trace
    /\ (LastStage = "correct" /\ last.stage = "correct" /\ ~SomeMissing(last.res)) =>
           trace' = trace

\* C12: a detection is invoked first in a run or right after an enrichment;
\* a correction only right after a detection that tagged some record; an
\* enrichment only right after a correction that left a missing-like
\* value; a detection that tags nothing and a correction that leaves
\* nothing missing are the last stage of their run.
C12_StageOrder == [][StagesInOrder /\ StopsWhenClean]_vars

\* a run whose second detection, after one correction and one enrichment,
\* tagged nothing, and which ended there
C12_StoppedByCleanDetection ==
    /\ pc = "done"
    /\ trace = <<"detect", "correct", "enrich", "detect">>
    /\ ~SomeTagged(output.df)

\* the run stopped before the cap: a detection tagged nothing, or a
\* correction left nothing for enrichment
StoppedEarly ==
    /\ pc = "done"
    /\ \/ Logged("No correction needed after detection")
       \/ Logged("No enrichment needed after correction")

\* C14: when a run stops before the cap, detect_issues on the frame it
\* wrote tags no record.
C14_EarlyStopLeavesNoIssue ==
    StoppedEarly => ~SomeTagged(detect_issues(output.df).df)

====
